---- MODULE Spec2Model ----
(***************************************************************************)
(* msgraph.Client: the request executor (performRequest) and the GET       *)
(* pagination walker (Get) of src/msgraph/client.go.                       *)
(*                                                                         *)
(* Time is counted in whole seconds (time.Second = 1).  A Go nil pointer   *)
(* is the record Nil; every other response, envelope or body is a record   *)
(* with nil = FALSE.                                                       *)
(***************************************************************************)
EXTENDS Integers, Sequences, FiniteSets, TLC

\* ------------------------------------------------------------------------
\* Program constants (client.go:27-32)
retryBackoffInitialDelay == 1
retryBackoffDelayCap == 64
oneAttemptMore == 10 + 1
requestAttemptsForRateLimiting == 10
oneConsistencyAttemptMore == 6 + 1
requestAttemptsForConsistency == 6

\* ------------------------------------------------------------------------
\* Bounds of the environment
\* longest chain of pages the server links together
MaxPages == 3
\* responses other than a plain "200, page" the server gives in a run over a
\* chain drawn from PagingChains
PagingFaults == 1
\* the same, in a run of Delete, Patch, Post or Put against an overloaded server
VerbFaults == 1

\* the five operations of the client
Ops == {"Get", "Delete", "Patch", "Post", "Put"}
\* request bodies (input.Body) a caller passes to Patch, Post and Put
Bodies == {<< >>, <<"x">>, <<"x", "y">>}

\* result arrays a page can carry
ResultArrays == {<< >>, <<"a">>, <<"b">>, <<"a", "b">>}
\* status codes the server answers with: a valid one, one that is an error,
\* two of the rate-limiting class
StatusCodes == {200, 400, 429, 503}
\* Retry-After headers the server sends: none, a non-numeric value (an HTTP
\* date), and the numbers 0, 3 and 100
RetryAfterHeaders ==
    { [kind |-> "absent", r |-> 0], [kind |-> "text", r |-> 0],
      [kind |-> "number", r |-> 0], [kind |-> "number", r |-> 3],
      [kind |-> "number", r |-> 100] }
NoRetryAfter == [kind |-> "absent", r |-> 0]

Nil == [nil |-> TRUE]

\* ------------------------------------------------------------------------
\* Pure helpers

RECURSIVE backoffPower(_, _)
backoffPower(base, exp) ==
    IF exp <= 1 THEN base ELSE base * backoffPower(base, exp - 1)

\* client.go:161-164: the default exponential backoff for a multiplier
DefaultBackoff(m) ==
    LET b == retryBackoffInitialDelay * backoffPower(2, m)
    IN  IF b > retryBackoffDelayCap THEN retryBackoffDelayCap ELSE b

containsStatusCode(expected, actual) == actual \in expected

rateLimitingStatuses_with400 == {400, 424, 429, 500, 502, 503}
rateLimitingStatuses == {424, 429, 500, 502, 503}

Override_keepsMultiplier(h, m) == [backoff |-> h.r, multiplier |-> m]
\* client.go:206-207: the backoff and the multiplier a Retry-After sets
Override(h, m) == [backoff |-> h.r, multiplier |-> 0]

\* client.go:203-204: a Retry-After header that overrides the backoff
RetryAfterApplies(h) == h.kind = "number" /\ h.r > 0

ConsistencyRetryAllowed_offByOne(n) == n + 1 < requestAttemptsForConsistency

\* client.go:181
ConsistencyRetryAllowed(n) == n < requestAttemptsForConsistency

\* client.go:326, 275, 430, 472, 514: the bytes of the body the request is
\* built with (http.NoBody reads as no bytes)
RequestBody(op, body) == IF op \in {"Patch", "Post", "Put"} THEN body ELSE << >>

\* client.go:146: io.ReadAll returns the bytes not yet read
ReadAll(reader) == reader

NewBody_keepsReader(reader, buf) == reader
\* client.go:166: the bytes req.Body holds when Do is called
NewBody(reader, buf) == buf

\* ------------------------------------------------------------------------
\* Documents: the bytes of a body, and odata.OData decoded from them.
\* src is the page whose bytes the server sent, 0 for bytes json.Marshal made.

PageBytes(chain, i) ==
    [nil |-> FALSE, kind |-> "json", src |-> i, nextLink |-> chain[i].nextLink,
     hasValue |-> chain[i].hasValue, value |-> chain[i].value]
TextBytes(i) ==
    [nil |-> FALSE, kind |-> "text", src |-> i, nextLink |-> 0,
     hasValue |-> FALSE, value |-> << >>]
ClosedBody == [nil |-> FALSE, kind |-> "closed", src |-> 0, nextLink |-> 0,
               hasValue |-> FALSE, value |-> << >>]

\* json.Unmarshal(body, &odata): the fields OData declares, nothing else
Unmarshal(b) == [nextLink |-> b.nextLink, hasValue |-> b.hasValue, value |-> b.value]
\* json.Marshal(odata)
Marshal(od) ==
    [nil |-> FALSE, kind |-> "json", src |-> 0, nextLink |-> od.nextLink,
     hasValue |-> od.hasValue, value |-> od.value]

MergeValue_nextFirst(first, next) ==
    IF next.hasValue
    THEN [next EXCEPT !.value = next.value \o first.value]
    ELSE next

\* client.go:380-384
MergeValue(first, next) ==
    IF next.hasValue
    THEN [next EXCEPT !.value = first.value \o next.value]
    ELSE next

IsLastPage_ignoresFlag(disablePaging, first) ==
    first.nextLink = 0 \/ ~first.hasValue

\* client.go:353
IsLastPage(disablePaging, first) ==
    disablePaging \/ first.nextLink = 0 \/ ~first.hasValue

\* ------------------------------------------------------------------------
\* State

VARIABLES
    cfg,          \* Client.DisableRetries, the operation called and its input
    chain,        \* the pages the server holds, linked by next-links
    faults,       \* what the environment may still do other than serve a page
    depth,        \* recursion level of Get (1 = the caller's Get)
    url,          \* the page the request of this level asks for (rawUri)
    frames,       \* frames[d]: resp and firstOdata of level d, waiting on level d+1
    pc,           \* "get", "auth", "loop", "check", "ret", "merge", "done"
    req,          \* the bytes of req.Body not read yet
    attempts, backoff, multiplier, status, resp, o,   \* locals of performRequest
    reqBody,      \* the bytes performRequest buffered
    flags,        \* what the two predicates of the input answer for (resp, o)
    ret,          \* the tuple the last return statement returned
    sends,        \* calls of HttpClient.Do in this performRequest
    slept,        \* the last time.Sleep of this performRequest and what led to it
    pending,      \* the branch that ended the previous iteration of the loop, and
                  \* the seconds of the Retry-After of its response (0: none that
                  \* applies)
    firstBackoff, \* the backoff computed in the first iteration
    fatal,        \* the fatal failure this performRequest met, if any
    cfRetries,    \* iterations of this performRequest ended by the consistency retry
    allPlain,     \* every response so far: rate-limiting status, no Retry-After
    allRateLimited, \* every response so far: rate-limiting status, not valid
    firstUnflagged, \* number of the first response the predicate did not flag
    firstEval,    \* number of the first response whose status was evaluated
    seen,         \* status and number of the last response Do returned in this
                  \* performRequest, and the status last assigned at line 187
    sent,         \* the bytes req.Body held at the first and at the last call
                  \* of Do in this performRequest
    sleeps,       \* calls of time.Sleep in this performRequest
    walked        \* calls of performRequest and of Do since the caller's call

locals == <<attempts, backoff, multiplier, status, resp, o, flags, reqBody>>
history == <<sends, slept, pending, firstBackoff, fatal, cfRetries,
             allPlain, allRateLimited, firstUnflagged, firstEval, seen, sent,
             sleeps>>
walk == <<depth, url, frames>>
vars == <<cfg, chain, faults, walk, pc, req, locals, ret, history, walked>>

NoFlags == [cf |-> FALSE, vf |-> FALSE]
NoSleep == [delay |-> 0, cause |-> "none", ra |-> 0]
NoPending == [cause |-> "none", ra |-> 0]
NoneSeen == [status |-> 0, attempt |-> 0, evaluated |-> 0]
NoneSent == [first |-> << >>, last |-> << >>]
NoReturn == [resp |-> Nil, status |-> 0, o |-> Nil, err |-> "nil", code |-> 0]

\* ------------------------------------------------------------------------
\* The environment: configurations, page chains, responses

Configs ==
    [DisableRetries : BOOLEAN, DisablePaging : BOOLEAN, hasCF : BOOLEAN,
     hasVF : BOOLEAN, ValidStatusCodes : {{200}, {200, 429}},
     op : Ops, Body : Bodies]
\* a Get: no request body
GetConfigs == {c \in Configs : c.op = "Get" /\ c.Body = << >>}
\* the configurations of the runs over RetryChains and over PagingChains
RetryConfigs == {c \in GetConfigs : ~c.DisablePaging /\ c.hasCF /\ c.hasVF}
PagingConfigs ==
    {c \in GetConfigs : ~c.DisableRetries /\ c.hasCF = c.hasVF
                        /\ c.ValidStatusCodes = {200}}
\* the configurations of the runs against an overloaded server: any of the
\* five operations, no predicates
OverloadConfigs ==
    {c \in Configs : /\ ~c.DisableRetries /\ ~c.DisablePaging
                     /\ ~c.hasCF /\ ~c.hasVF /\ c.ValidStatusCodes = {200}
                     /\ c.Body = RequestBody(c.op, c.Body)}

Page(v, hv, nl) == [value |-> v, hasValue |-> hv, nextLink |-> nl]

\* A chain of n pages: every page but the last has a result array and links to
\* the next; the last has a result array and no link, or no result array
\* (with or without a link).
ChainsOfLen(n) ==
    { [i \in 1..n |-> IF i < n THEN Page(vs[i], TRUE, i + 1) ELSE last] :
        vs \in [1..n -> ResultArrays],
        last \in {Page(v, TRUE, 0) : v \in ResultArrays}
                 \cup {Page(<< >>, FALSE, 0), Page(<< >>, FALSE, n + 1)} }
PagingChains == UNION {ChainsOfLen(n) : n \in 1..MaxPages}
RetryChains == { <<Page(<<"a">>, TRUE, 0)>> }
\* the chains of the runs against an overloaded server
OverloadChains ==
    { [i \in 1..n |-> Page(<<"a">>, TRUE, IF i < n THEN i + 1 ELSE 0)] :
        n \in 1..MaxPages }

\* faults: whether the environment's faults are counted (limited) and how
\* many are left; overload: the server may answer any request with a 503
\* without Retry-After, as often as it likes
Unlimited == [limited |-> FALSE, left |-> 0, overload |-> FALSE]
Limited(n) == [limited |-> TRUE, left |-> n, overload |-> FALSE]
Overloaded(n) == [limited |-> TRUE, left |-> n, overload |-> TRUE]
CanFault == ~faults.limited \/ faults.left > 0
Fault == IF faults.limited THEN [faults EXCEPT !.left = @ - 1] ELSE faults

\* what the server answers and what the predicates say of it; a page comes
\* with a 200
PlainResponse == [status |-> 200, cf |-> FALSE, vf |-> FALSE, body |-> "page"]
OverloadResponse == [status |-> 503, cf |-> FALSE, vf |-> FALSE, body |-> "text"]
AllResponses ==
    { r \in [status : StatusCodes, cf : BOOLEAN, vf : BOOLEAN, body : {"page", "text"}] :
        /\ (r.cf => cfg.hasCF) /\ (r.vf => cfg.hasVF)
        /\ (r.body = "page" => r.status = 200) }
FaultResponses ==
    { r \in AllResponses :
        /\ r # PlainResponse
        /\ (faults.limited => ~(r.cf /\ r.vf)) }
\* the Retry-After headers a response of the given status can carry
HeadersOf(st) ==
    IF st \in rateLimitingStatuses /\ ~faults.limited THEN RetryAfterHeaders
    ELSE {NoRetryAfter}
\* the seconds of a Retry-After that overrides the backoff, 0 for any other
Seconds(h) == IF RetryAfterApplies(h) THEN h.r ELSE 0

Init ==
    /\ \/ /\ chain \in RetryChains
          /\ cfg \in RetryConfigs
          /\ faults = Unlimited
       \/ /\ chain \in PagingChains
          /\ cfg \in PagingConfigs
          /\ faults = Limited(PagingFaults)
       \/ /\ cfg \in OverloadConfigs
          /\ IF cfg.op = "Get"
             THEN chain \in OverloadChains /\ faults = Overloaded(0)
             ELSE chain \in RetryChains /\ faults = Overloaded(VerbFaults)
    /\ depth = 1 /\ url = 1 /\ frames = << >>
    /\ pc = "get" /\ req = << >> /\ reqBody = << >>
    /\ sent = NoneSent /\ sleeps = 0 /\ walked = [pages |-> 0, sends |-> 0]
    /\ attempts = 0 /\ backoff = 0 /\ multiplier = 0 /\ status = 0
    /\ resp = Nil /\ o = Nil /\ flags = NoFlags
    /\ ret = NoReturn
    /\ sends = 0 /\ slept = NoSleep /\ pending = NoPending /\ firstBackoff = 0
    /\ fatal = "none" /\ cfRetries = 0 /\ allPlain = TRUE /\ allRateLimited = TRUE
    /\ firstUnflagged = 0 /\ firstEval = 0 /\ seen = NoneSeen

FreshCall_keepsAttempts ==
    /\ attempts' = attempts /\ backoff' = 0 /\ multiplier' = 0 /\ status' = 0
    /\ resp' = Nil /\ o' = Nil /\ flags' = NoFlags /\ reqBody' = << >>
    /\ sent' = NoneSent /\ sleeps' = 0
    /\ sends' = 0 /\ slept' = NoSleep /\ pending' = NoPending /\ firstBackoff' = 0
    /\ fatal' = "none" /\ cfRetries' = 0 /\ allPlain' = TRUE /\ allRateLimited' = TRUE
    /\ firstUnflagged' = 0 /\ firstEval' = 0 /\ seen' = NoneSeen

\* entry of performRequest: fresh locals (client.go:114, 132-134, 152)
FreshCall ==
    /\ attempts' = 0 /\ backoff' = 0 /\ multiplier' = 0 /\ status' = 0
    /\ resp' = Nil /\ o' = Nil /\ flags' = NoFlags /\ reqBody' = << >>
    /\ sent' = NoneSent /\ sleeps' = 0
    /\ sends' = 0 /\ slept' = NoSleep /\ pending' = NoPending /\ firstBackoff' = 0
    /\ fatal' = "none" /\ cfRetries' = 0 /\ allPlain' = TRUE /\ allRateLimited' = TRUE
    /\ firstUnflagged' = 0 /\ firstEval' = 0 /\ seen' = NoneSeen

Return(r, st, od, e, c) == [resp |-> r, status |-> st, o |-> od, err |-> e, code |-> c]

\* ------------------------------------------------------------------------
\* performRequest (client.go:113-232)

\* the *http.Response of HttpClient.Do for the server's answer r
Response(r) ==
    [nil |-> FALSE, status |-> r.status, attempt |-> sends + 1, page |-> url,
     body |-> IF r.body = "page" THEN PageBytes(chain, url) ELSE TextBytes(url)]
\* odata.FromResponse(resp)
Envelope(rs) ==
    [nil |-> FALSE, attempt |-> rs.attempt, page |-> rs.page,
     nextLink |-> rs.body.nextLink, hasValue |-> rs.body.hasValue,
     value |-> rs.body.value]

\* client.go:116-120: Authorizer.Token() fails
AuthorizerFails ==
    /\ pc = "auth" /\ CanFault
    /\ faults' = Fault
    /\ ret' = Return(Nil, status, Nil, "token", 0)
    /\ fatal' = "token"
    /\ pc' = "ret"
    /\ UNCHANGED <<cfg, chain, walk, locals, sends, slept, pending, firstBackoff,
                   cfRetries, allPlain, allRateLimited, firstUnflagged, firstEval,
                   seen, sent, sleeps, req, walked>>

\* client.go:116-150: no Authorizer or a token; headers; the body buffered
\* (io.ReadAll does not fail on the bytes.Buffer and http.NoBody the five
\* operations build their requests with)
AuthorizerOk ==
    /\ pc = "auth"
    /\ reqBody' = ReadAll(req)
    /\ req' = << >>
    /\ pc' = "loop"
    /\ UNCHANGED <<cfg, chain, faults, walk, attempts, backoff, multiplier, status,
                   resp, o, flags, ret, history, walked>>

LoopHead_sleepsFirst ==
    /\ pc = "loop"
    /\ attempts < requestAttemptsForRateLimiting
    /\ slept' = [delay |-> backoff, cause |-> pending.cause, ra |-> pending.ra]
    /\ multiplier' = multiplier + 1
    /\ backoff' = DefaultBackoff(multiplier + 1)
    /\ firstBackoff' = IF attempts = 0 THEN DefaultBackoff(multiplier + 1)
                       ELSE firstBackoff
    /\ sleeps' = sleeps + 1
    /\ sent' = [first |-> IF sends = 0 THEN NewBody(req, reqBody) ELSE sent.first,
                last |-> NewBody(req, reqBody)]
    /\ req' = << >>
    /\ sends' = sends + 1
    /\ walked' = [walked EXCEPT !.sends = @ + 1]
    /\ UNCHANGED <<cfg, chain, walk, pending, cfRetries, reqBody>>

\* client.go:153-167: the head of one iteration, up to the call of Do
LoopHead ==
    /\ pc = "loop"
    /\ attempts < requestAttemptsForRateLimiting
    /\ slept' = IF attempts > 0
                THEN [delay |-> backoff, cause |-> pending.cause, ra |-> pending.ra]
                ELSE slept
    /\ multiplier' = multiplier + 1
    /\ backoff' = DefaultBackoff(multiplier + 1)
    /\ firstBackoff' = IF attempts = 0 THEN DefaultBackoff(multiplier + 1)
                       ELSE firstBackoff
    /\ sleeps' = IF attempts > 0 THEN sleeps + 1 ELSE sleeps
    /\ sent' = [first |-> IF sends = 0 THEN NewBody(req, reqBody) ELSE sent.first,
                last |-> NewBody(req, reqBody)]
    /\ req' = << >>
    /\ sends' = sends + 1
    /\ walked' = [walked EXCEPT !.sends = @ + 1]
    /\ UNCHANGED <<cfg, chain, walk, pending, cfRetries, reqBody>>

DoFails_retried ==
    /\ LoopHead /\ CanFault
    /\ faults' = Fault
    /\ resp' = Nil
    /\ fatal' = "transport"
    /\ attempts' = attempts + 1
    /\ pc' = "loop"
    /\ UNCHANGED <<ret, status, o, flags, allPlain, allRateLimited, firstUnflagged,
                   firstEval, seen>>

\* client.go:167-170: Do returns an error
DoFails ==
    /\ LoopHead /\ CanFault
    /\ faults' = Fault
    /\ resp' = Nil
    /\ ret' = Return(Nil, status, Nil, "transport", 0)
    /\ fatal' = "transport"
    /\ pc' = "ret"
    /\ UNCHANGED <<attempts, status, o, flags, allPlain, allRateLimited,
                   firstUnflagged, firstEval, seen>>

\* client.go:172-175: odata.FromResponse returns an error (and a nil envelope
\* with it)
DecodeFails ==
    /\ LoopHead /\ CanFault
    /\ faults' = Fault
    /\ \E s \in StatusCodes :
         /\ resp' = Response([status |-> s, body |-> "text"])
         /\ seen' = [seen EXCEPT !.status = s, !.attempt = sends + 1]
    /\ o' = Nil
    /\ ret' = Return(Nil, status, Nil, "decode", 0)
    /\ fatal' = "decode"
    /\ pc' = "ret"
    /\ UNCHANGED <<attempts, status, flags, allPlain, allRateLimited, firstUnflagged, firstEval>>

\* client.go:167-175: a response arrives and decodes
Receive(r) ==
    /\ LoopHead
    /\ resp' = Response(r)
    /\ o' = Envelope(Response(r))
    /\ flags' = [cf |-> r.cf, vf |-> r.vf]
    /\ allRateLimited' = (/\ allRateLimited
                          /\ r.status \in rateLimitingStatuses
                          /\ r.status \notin cfg.ValidStatusCodes
                          /\ ~r.vf)
    /\ firstUnflagged' = IF firstUnflagged = 0 /\ ~r.cf THEN sends + 1
                         ELSE firstUnflagged
    /\ seen' = [seen EXCEPT !.status = r.status, !.attempt = sends + 1]
    /\ pc' = "check"
    /\ UNCHANGED <<attempts, status, ret, fatal, firstEval, allPlain>>

ReceivePage ==
    /\ Receive(PlainResponse)
    /\ UNCHANGED faults

ReceiveOther ==
    /\ CanFault
    /\ faults' = Fault
    /\ \E r \in FaultResponses : Receive(r)

\* client.go:167: an overloaded server answers 503
ReceiveOverloaded ==
    /\ faults.overload
    /\ Receive(OverloadResponse)
    /\ UNCHANGED faults

IsConsistencyFailure_ignoresDisable == cfg.hasCF /\ flags.cf

\* client.go:177-179
IsConsistencyFailure == ~cfg.DisableRetries /\ cfg.hasCF /\ flags.cf

\* the response leaves the iteration for the next one carrying header h
Retried(cause, h) ==
    /\ pending' = [cause |-> cause, ra |-> Seconds(h)]
    /\ allPlain' = (allPlain /\ resp.status \in rateLimitingStatuses
                    /\ h.kind = "absent")
    /\ attempts' = attempts + 1
    /\ flags' = NoFlags
    /\ pc' = "loop"

\* client.go:177-185: eventual consistency, just try again
ConsistencyRetry ==
    /\ pc = "check"
    /\ IsConsistencyFailure
    /\ ConsistencyRetryAllowed(attempts)
    /\ \E h \in HeadersOf(resp.status) : Retried("consistency", h)
    /\ cfRetries' = cfRetries + 1
    /\ UNCHANGED <<cfg, chain, faults, walk, backoff, multiplier, status, resp, o, ret,
                   sends, slept, firstBackoff, fatal, allRateLimited,
                   firstUnflagged, firstEval, seen, sent, sleeps, req, reqBody,
                   walked>>

\* client.go:187: the response reaches the status rules
Evaluate ==
    /\ pc = "check"
    /\ ~(IsConsistencyFailure /\ ConsistencyRetryAllowed(attempts))
    /\ status' = resp.status
    /\ firstEval' = IF firstEval = 0 THEN sends ELSE firstEval
    /\ seen' = [seen EXCEPT !.evaluated = resp.status]
    /\ UNCHANGED <<cfg, chain, faults, walk, resp, o, sends, slept, firstBackoff,
                   fatal, cfRetries, allRateLimited, firstUnflagged, sent, sleeps,
                   req, reqBody, walked>>

IsValid == containsStatusCode(cfg.ValidStatusCodes, resp.status)
\* client.go:189-190
IsAccepted == cfg.hasVF /\ flags.vf
IsRateLimited == containsStatusCode(rateLimitingStatuses, resp.status)

\* a return statement of performRequest
Returns(t) ==
    /\ ret' = t
    /\ pc' = "ret"
    /\ UNCHANGED <<attempts, backoff, multiplier, flags, pending, allPlain>>

\* client.go:188, 228-231: a valid status leaves the loop
StatusValid ==
    /\ Evaluate
    /\ IsValid
    /\ Returns(Return(resp, resp.status, o, "nil", 0))

\* client.go:189-192
ValidFuncAccepts ==
    /\ Evaluate
    /\ ~IsValid /\ IsAccepted
    /\ Returns(Return(resp, resp.status, o, "nil", 0))

RateLimited_beforePredicate ==
    /\ Evaluate
    /\ ~IsValid /\ IsRateLimited
    /\ \E h \in HeadersOf(resp.status) :
         /\ Retried("ratelimit", h)
         /\ IF RetryAfterApplies(h)
            THEN /\ backoff' = Override(h, multiplier).backoff
                 /\ multiplier' = Override(h, multiplier).multiplier
            ELSE UNCHANGED <<backoff, multiplier>>
    /\ UNCHANGED ret

\* client.go:201-211
RateLimited ==
    /\ Evaluate
    /\ ~IsValid /\ ~IsAccepted /\ IsRateLimited
    /\ \E h \in HeadersOf(resp.status) :
         /\ Retried("ratelimit", h)
         /\ IF RetryAfterApplies(h)
            THEN /\ backoff' = Override(h, multiplier).backoff
                 /\ multiplier' = Override(h, multiplier).multiplier
            ELSE UNCHANGED <<backoff, multiplier>>
    /\ UNCHANGED ret

UnexpectedStatus_noEnvelope ==
    /\ Evaluate
    /\ ~IsValid /\ ~IsAccepted /\ ~IsRateLimited
    /\ Returns(Return(Nil, resp.status, Nil, "status", resp.status))

\* client.go:213-225: any other status is an error
UnexpectedStatus ==
    /\ Evaluate
    /\ ~IsValid /\ ~IsAccepted /\ ~IsRateLimited
    /\ Returns(Return(Nil, resp.status, o, "status", resp.status))

LoopExhausted_asError ==
    /\ pc = "loop"
    /\ ~(attempts < requestAttemptsForRateLimiting)
    /\ ret' = Return(Nil, status, o, "exhausted", status)
    /\ pc' = "ret"
    /\ UNCHANGED <<cfg, chain, faults, walk, locals, history, req, walked>>

\* client.go:153, 231: the loop ran out of attempts
LoopExhausted ==
    /\ pc = "loop"
    /\ ~(attempts < requestAttemptsForRateLimiting)
    /\ ret' = Return(resp, status, o, "nil", 0)
    /\ pc' = "ret"
    /\ UNCHANGED <<cfg, chain, faults, walk, locals, history, req, walked>>

\* ------------------------------------------------------------------------
\* Get (client.go:312-397)
\*
\* Three error returns have no action: http.NewRequestWithContext (327-329)
\* does not fail for MethodGet and a URL that parsed; json.Unmarshal of the
\* first body (349-351) decodes the bytes odata.FromResponse has just decoded;
\* json.Marshal (387-390) encodes a value json.Unmarshal produced.

\* a return statement of the Get at level depth: to the caller, or to line 362
\* of the level above
GetReturns(t) ==
    /\ ret' = t
    /\ IF depth = 1
       THEN pc' = "done" /\ depth' = depth
       ELSE pc' = "merge" /\ depth' = depth - 1
    /\ frames' = SubSeq(frames, 1, depth - 1)
    /\ UNCHANGED <<cfg, chain, url, req, walked>>
    /\ FreshCall

\* client.go:316-323: buildUri cannot parse Client.Endpoint
BuildUriFails ==
    /\ pc = "get" /\ cfg.op = "Get" /\ depth = 1 /\ CanFault
    /\ faults' = Fault
    /\ GetReturns(Return(Nil, 0, Nil, "uri", 0))

\* client.go:316-332: the request is built and handed to performRequest
GetBegin ==
    /\ pc = "get" /\ cfg.op = "Get"
    /\ req' = RequestBody(cfg.op, cfg.Body)
    /\ walked' = [walked EXCEPT !.pages = @ + 1]
    /\ pc' = "auth"
    /\ FreshCall
    /\ UNCHANGED <<cfg, chain, faults, walk, ret>>

\* client.go:333-335
GetRequestFailed ==
    /\ pc = "ret" /\ cfg.op = "Get" /\ ret.err # "nil"
    /\ GetReturns(Return(Nil, ret.status, ret.o, ret.err, ret.code))
    /\ UNCHANGED faults

\* client.go:338-339, 396: the content type is not application/json
GetNotJson ==
    /\ pc = "ret" /\ cfg.op = "Get" /\ ret.err = "nil"
    /\ ret.resp.body.kind # "json"
    /\ GetReturns(ret)
    /\ UNCHANGED faults

\* client.go:341-344: reading the body fails
GetReadFails ==
    /\ pc = "ret" /\ cfg.op = "Get" /\ ret.err = "nil"
    /\ ret.resp.body.kind = "json"
    /\ CanFault
    /\ faults' = Fault
    /\ GetReturns(Return(Nil, ret.status, ret.o, "read", 0))

\* client.go:353-357: no more pages, the body is handed back as it was read
GetLastPage ==
    /\ pc = "ret" /\ cfg.op = "Get" /\ ret.err = "nil"
    /\ ret.resp.body.kind = "json"
    /\ IsLastPage(cfg.DisablePaging, Unmarshal(ret.resp.body))
    /\ GetReturns(ret)
    /\ UNCHANGED faults

\* client.go:359-362: Get calls itself for the next page
GetNextPage ==
    /\ pc = "ret" /\ cfg.op = "Get" /\ ret.err = "nil"
    /\ ret.resp.body.kind = "json"
    /\ ~IsLastPage(cfg.DisablePaging, Unmarshal(ret.resp.body))
    /\ frames' = Append(frames, [resp |-> [ret.resp EXCEPT !.body = ClosedBody],
                                 status |-> ret.status, o |-> ret.o,
                                 first |-> Unmarshal(ret.resp.body)])
    /\ depth' = depth + 1
    /\ url' = ret.resp.body.nextLink
    /\ pc' = "get"
    /\ ret' = NoReturn
    /\ FreshCall
    /\ UNCHANGED <<cfg, chain, faults, req, walked>>

\* client.go:363-365: the next page failed
MergeNextFailed ==
    /\ pc = "merge" /\ ret.err # "nil"
    /\ GetReturns(Return(frames[depth].resp, ret.status, ret.o, ret.err, ret.code))
    /\ UNCHANGED faults

\* client.go:368-371
MergeReadFails ==
    /\ pc = "merge" /\ ret.err = "nil"
    /\ CanFault
    /\ faults' = Fault
    /\ GetReturns(Return(Nil, ret.status, ret.o, "read", 0))

\* client.go:375-378: the next page's body is no JSON document
MergeUnmarshalFails ==
    /\ pc = "merge" /\ ret.err = "nil"
    /\ ret.resp.body.kind # "json"
    /\ GetReturns(Return(frames[depth].resp, ret.status, ret.o, "unmarshal", 0))
    /\ UNCHANGED faults

\* client.go:375-396: the two pages become one document.  The status and o
\* of line 362 are declared in the block that ends at line 394; the return
\* of line 396 names the status and o of line 332.
Merge ==
    /\ pc = "merge" /\ ret.err = "nil"
    /\ ret.resp.body.kind = "json"
    /\ LET merged == Marshal(MergeValue(frames[depth].first, Unmarshal(ret.resp.body)))
       IN  GetReturns(Return([frames[depth].resp EXCEPT !.body = merged],
                             frames[depth].status, frames[depth].o, "nil", 0))
    /\ UNCHANGED faults

\* ------------------------------------------------------------------------
\* Delete, Patch, Post, Put (client.go:269-284, 424-440, 466-482, 508-522):
\* the four differ in the method and in the body of the request.
\* http.NewRequestWithContext does not fail for these methods and a URL that
\* parsed.

isVerb == cfg.op \in {"Delete", "Patch", "Post", "Put"}

\* a return statement of one of the four
VerbReturns(t) ==
    /\ ret' = t
    /\ pc' = "done"
    /\ UNCHANGED <<cfg, chain, walk, req, walked>>
    /\ FreshCall

\* client.go:426-429: buildUri cannot parse Client.Endpoint
VerbBuildUriFails ==
    /\ pc = "get" /\ isVerb /\ CanFault
    /\ faults' = Fault
    /\ VerbReturns(Return(Nil, 0, Nil, "uri", 0))

\* client.go:426-434: the request is built and handed to performRequest
VerbBegin ==
    /\ pc = "get" /\ isVerb
    /\ req' = RequestBody(cfg.op, cfg.Body)
    /\ walked' = [walked EXCEPT !.pages = @ + 1]
    /\ pc' = "auth"
    /\ FreshCall
    /\ UNCHANGED <<cfg, chain, faults, walk, ret>>

\* client.go:435-437
VerbRequestFailed ==
    /\ pc = "ret" /\ isVerb /\ ret.err # "nil"
    /\ VerbReturns(Return(Nil, ret.status, ret.o, ret.err, ret.code))
    /\ UNCHANGED faults

\* client.go:438
VerbSucceeds ==
    /\ pc = "ret" /\ isVerb /\ ret.err = "nil"
    /\ VerbReturns(ret)
    /\ UNCHANGED faults

\* ------------------------------------------------------------------------

Next ==
    \/ BuildUriFails \/ GetBegin
    \/ AuthorizerFails \/ AuthorizerOk
    \/ DoFails \/ DecodeFails \/ ReceivePage \/ ReceiveOther \/ ReceiveOverloaded
    \/ ConsistencyRetry
    \/ StatusValid \/ ValidFuncAccepts \/ RateLimited \/ UnexpectedStatus
    \/ LoopExhausted
    \/ GetRequestFailed \/ GetNotJson \/ GetReadFails \/ GetLastPage \/ GetNextPage
    \/ MergeNextFailed \/ MergeReadFails \/ MergeUnmarshalFails \/ Merge
    \/ VerbBuildUriFails \/ VerbBegin \/ VerbRequestFailed \/ VerbSucceeds

Spec == Init /\ [][Next]_vars

\* ------------------------------------------------------------------------
\* Properties

inCall == pc \in {"auth", "loop", "check"}
\* the rate-limiting class of statuses
RateLimitingClass == {424, 429, 500, 502, 503}
Min(a, b) == IF a < b THEN a ELSE b
RECURSIVE Pow2(_)
Pow2(n) == IF n = 0 THEN 1 ELSE 2 * Pow2(n - 1)
\* the steps one performRequest can still take, at most
Remaining ==
    CASE pc = "auth"  -> 3 * 10 + 3
      [] pc = "loop"  -> 3 * (10 - attempts) + 2
      [] pc = "check" -> 3 * (10 - attempts) + 1
      [] OTHER        -> 0

\* C1: one performRequest sends the request at most 10 times and returns: no
\* state of a call has more than 10 sends, every step of a call strictly
\* lowers a measure that is never negative, and a call that has not returned
\* can always take a step.
C1_AtMostTenSendsThenReturns ==
    [][ /\ sends <= 10 /\ sends' <= 10
        /\ Remaining >= 0
        /\ (inCall => Remaining' < Remaining /\ Remaining' >= 0) ]_vars
C1_TenthSendReturned == pc = "ret" /\ sends = 10

\* C2: when every response so far had a rate-limiting status and no
\* Retry-After, the delay slept before attempt k+1 is min(2^(k-1), 64) seconds:
\* 1, 2, 4, 8, ... capped at 64.
C2_DelaysDoubleFromOneSecond ==
    (pc = "check" /\ attempts > 0 /\ allPlain)
        => slept.delay = Min(Pow2(attempts - 1), 64)

\* C3 as claimed: whenever the response before this attempt had a
\* rate-limiting status and a positive numeric Retry-After of n seconds, the
\* delay slept before this attempt was n and the default backoff is back at
\* the first step of the progression.
C3_RetryAfterAlwaysUsed ==
    (pc = "check" /\ attempts > 0 /\ slept.ra > 0)
        => slept.delay = slept.ra /\ backoff = firstBackoff
\* C3 as amended: the same, for a response that was retried as rate limited
\* (not as a consistency failure).
C3_RetryAfterUsedWhenRateLimited ==
    (pc = "check" /\ attempts > 0 /\ slept.ra > 0 /\ slept.cause = "ratelimit")
        => slept.delay = slept.ra /\ backoff = firstBackoff
C3_SleptHundredAfterThreeAttempts ==
    /\ pc = "check" /\ attempts >= 3
    /\ slept.cause = "ratelimit" /\ slept.ra = 100 /\ slept.delay = 100

\* C4: with retries enabled, when the predicate flags exactly the first k
\* responses (k <= 6), none of them reaches the status rules and the first
\* response that does is number k+1.
C4_FlaggedPrefixRetried ==
    (~cfg.DisableRetries /\ cfg.hasCF /\ inCall) =>
        /\ (firstUnflagged = 0 /\ sends <= 6 => firstEval = 0)
        /\ (firstUnflagged \in 1..7 =>
              \/ firstEval = firstUnflagged
              \/ firstEval = 0 /\ pc = "check" /\ sends = firstUnflagged)
C4_SixFlaggedSeventhEvaluated ==
    /\ ~cfg.DisableRetries /\ cfg.hasCF /\ inCall
    /\ firstUnflagged = 7 /\ firstEval = 7 /\ sends = 7

\* C5 as claimed: a call never returns on a response the predicate flags while
\* fewer than 6 consistency retries were made and an attempt is left.
C5_SeparateConsistencyAllowance ==
    (pc = "ret" /\ fatal = "none" /\ IsConsistencyFailure)
        => ~(cfRetries < 6 /\ attempts < 9)
\* C5 as amended: the allowance is counted on the attempt counter of the
\* call: a flagged response is retried as a consistency failure exactly when
\* it comes on one of the first 6 attempts, whatever caused the earlier ones.
C5_ConsistencyRetryInFirstSixAttempts ==
    /\ (pc = "ret" /\ fatal = "none" /\ IsConsistencyFailure) => attempts >= 6
    /\ (pc = "loop" /\ pending.cause = "consistency") => attempts <= 6
    /\ cfRetries <= 6
C5_FlaggedNotRetriedAfterRateLimits ==
    /\ pc = "ret" /\ fatal = "none" /\ IsConsistencyFailure
    /\ ret.err = "status"
    /\ cfRetries >= 1 /\ cfRetries < 6 /\ attempts < 9

RECURSIVE Concatenated(_, _)
\* the result arrays of pages i.. of a chain, one after the other
Concatenated(c, i) ==
    IF i > Len(c) THEN << >> ELSE c[i].value \o Concatenated(c, i + 1)
everyPageHasValue == \A i \in 1..Len(chain) : chain[i].hasValue

\* C6: a Get with paging over a chain whose pages all have a result array
\* returns a JSON body whose results are the pages' results in page order,
\* and no next-link.
C6_MergedInArrivalOrder ==
    (/\ pc = "done" /\ ret.err = "nil" /\ ~cfg.DisablePaging
     /\ everyPageHasValue /\ ret.resp.body.kind = "json")
        => /\ ret.resp.body.value = Concatenated(chain, 1)
           /\ ret.resp.body.nextLink = 0
C6_ThreePagesMerged ==
    /\ pc = "done" /\ ret.err = "nil" /\ ~cfg.DisablePaging
    /\ Len(chain) = 3
    /\ ret.resp.body.value = <<"a", "b", "b", "a", "b">>
    /\ ret.resp.body.nextLink = 0

\* C7: with DisablePaging, a Get whose first page has a next-link never
\* leaves the first level, and the body it returns is the bytes the server
\* sent for the first page.
C7_PagingDisabledReturnsFirstPage ==
    (cfg.DisablePaging /\ chain[1].nextLink # 0) =>
        /\ depth = 1 /\ url = 1 /\ frames = << >>
        /\ (pc = "done" /\ ret.err = "nil")
              => ret.resp.body \in {PageBytes(chain, 1), TextBytes(1)}
C7_FirstPageWithLinkReturned ==
    /\ cfg.DisablePaging /\ chain[1].nextLink = 2
    /\ pc = "done" /\ ret.err = "nil"
    /\ ret.resp.body = PageBytes(chain, 1)

\* C8: when all 10 responses of a call had a rate-limiting status that was
\* neither valid nor accepted, performRequest returns the last response, its
\* status and its envelope, and a nil error.
C8_ExhaustedReturnsLastResponse ==
    (pc = "ret" /\ fatal = "none" /\ sends = 10 /\ allRateLimited) =>
        /\ ret.err = "nil"
        /\ ret.resp = resp /\ ~resp.nil /\ resp.attempt = 10
        /\ ret.status = resp.status
        /\ ret.o = o /\ ~o.nil /\ o.attempt = 10
C8_TenRateLimited ==
    /\ pc = "ret" /\ fatal = "none" /\ sends = 10 /\ allRateLimited
    /\ ret.err = "nil" /\ ret.status = 503

\* C9: a failure of the Authorizer, of the transport or of the decoding ends
\* the call at once with its error: no send for the Authorizer, k sends for a
\* failure on attempt k.
C9_FatalFailuresNotRetried ==
    /\ fatal # "none" => pc = "ret" /\ ret.err = fatal /\ ret.resp = Nil
    /\ fatal = "token" => sends = 0
    /\ fatal \in {"transport", "decode"} => sends = attempts + 1
C9_TransportFailureAfterRetries ==
    /\ fatal = "transport" /\ pc = "ret" /\ ret.err = "transport"
    /\ sends = 5 /\ cfRetries = 2

\* C10: a retry follows only a rate-limiting status or a consistency failure,
\* and a response that is none of valid, accepted, consistency failure or
\* rate limiting ends the call on its attempt with an error carrying its
\* status.
C10_OnlyTwoClassesRetried ==
    /\ (pc = "loop" /\ attempts > 0) =>
          \/ pending.cause = "ratelimit" /\ resp.status \in RateLimitingClass
          \/ pending.cause = "consistency" /\ ~cfg.DisableRetries /\ cfg.hasCF
    /\ (/\ pc = "ret" /\ fatal = "none" /\ sends > 0
        /\ resp.status \notin cfg.ValidStatusCodes
        /\ ~IsAccepted /\ ~IsConsistencyFailure
        /\ resp.status \notin RateLimitingClass)
          => /\ ret.err = "status" /\ ret.code = resp.status
             /\ ret.status = resp.status /\ ret.resp = Nil
             /\ sends = attempts + 1
C10_UnexpectedStatusAfterRetries ==
    /\ pc = "ret" /\ ret.err = "status" /\ ret.code = 400
    /\ attempts >= 2 /\ ~flags.cf /\ ~flags.vf

\* C11 as claimed: an error returned by performRequest after at least one
\* response was received comes with the status of the last response received
\* and with its envelope.
C11_ErrorCarriesLastResponse ==
    (pc = "ret" /\ ret.err # "nil" /\ seen.attempt > 0) =>
        /\ ret.status = seen.status
        /\ ~ret.o.nil /\ ret.o.attempt = seen.attempt
\* C11 as amended: an unexpected-status error comes with the status and the
\* envelope of the last response received; a transport or decode failure
\* comes with a nil envelope and with the status last assigned at line 187,
\* which is 0 if no response of the call reached the status rules.
C11_ErrorCarriesEvaluatedStatus ==
    /\ (pc = "ret" /\ ret.err = "status") =>
          /\ seen.attempt = sends
          /\ ret.status = seen.status
          /\ ~ret.o.nil /\ ret.o.attempt = seen.attempt
    /\ (pc = "ret" /\ ret.err \in {"transport", "decode"}) =>
          /\ ret.o = Nil
          /\ ret.status = seen.evaluated
C11_TransportFailureAfterFlagged400 ==
    /\ pc = "ret" /\ ret.err = "transport" /\ sends = 3
    /\ seen.status = 400 /\ seen.attempt = 2
    /\ ret.status = 503 /\ ret.o = Nil

\* C12: on every attempt of a call the bytes of the request body handed to
\* the transport are the bytes of the first attempt, and they are the whole
\* body the request was built with.
C12_SameBodyOnEveryAttempt ==
    (sends >= 1 /\ pc \in {"loop", "check", "ret"}) =>
        /\ sent.last = sent.first
        /\ sent.first = RequestBody(cfg.op, cfg.Body)
C12_TenthPostSendsWholeBody ==
    /\ cfg.op = "Post" /\ cfg.Body = <<"x", "y">>
    /\ pc = "check" /\ sends = 10
    /\ sent.last = <<"x", "y">> /\ req = << >>

\* C13: with DisableRetries no iteration ends in the consistency retry: every
\* response received, flagged or not, has its status evaluated at once, every
\* retry is a rate-limiting one, and a call whose responses all have a
\* rate-limiting status that is not accepted still makes all 10 attempts.
C13_DisableRetriesOnlyStopsConsistencyRetry ==
    cfg.DisableRetries =>
        /\ cfRetries = 0
        /\ (pc = "loop" /\ attempts > 0) => pending.cause = "ratelimit"
        /\ (pc \in {"loop", "ret"} /\ fatal = "none" /\ sends > 0) =>
              /\ seen.evaluated = seen.status
              /\ firstEval = 1
        /\ (pc = "ret" /\ fatal = "none" /\ sends > 0 /\ allRateLimited) =>
              sends = 10 /\ ret.err = "nil"
C13_FlaggedEvaluatedAfterTwoRateLimits ==
    /\ cfg.DisableRetries /\ cfg.hasCF
    /\ pc = "ret" /\ flags.cf /\ ret.err = "status"
    /\ sends = 3 /\ attempts = 2 /\ cfRetries = 0

\* C15: every performRequest of a walk starts with the attempt counter, the
\* backoff, the multiplier and the consistency allowance at zero and makes at
\* most 10 sends, so a walk that has asked for p pages has made at most 10*p
\* sends.
C15_EachPageHasFullBudget ==
    /\ pc = "auth" =>
          /\ attempts = 0 /\ backoff = 0 /\ multiplier = 0
          /\ sends = 0 /\ cfRetries = 0
    /\ pc \in {"auth", "loop", "check", "ret"} => walked.pages = depth
    /\ sends <= 10
    /\ walked.sends <= 10 * walked.pages
C15_SecondPageSentTenAfterTen ==
    /\ cfg.op = "Get" /\ depth = 2 /\ pc = "ret"
    /\ frames[1].resp.attempt = 10
    /\ sends = 10 /\ walked.sends = 20

\* C16: among the status rules the extra-valid predicate comes before the
\* rate-limiting class: a response that reaches the status rules and is
\* accepted by the predicate ends the call with that response and a nil
\* error, without another send, whatever its status; and an iteration ends
\* in the rate-limiting retry only for a response whose status is not valid
\* and that the predicate, if there is one, does not accept.
C16_AcceptedBeforeRateLimited ==
    [][ pc = "check" =>
          /\ (IsAccepted /\ ~(IsConsistencyFailure /\ ConsistencyRetryAllowed(attempts)))
                => /\ pc' = "ret" /\ ret'.err = "nil" /\ ret'.resp = resp
                   /\ ret'.status = resp.status /\ sends' = sends
          /\ (pc' = "loop" /\ pending'.cause = "ratelimit")
                => /\ ~IsValid /\ ~IsAccepted
                   /\ resp.status \in RateLimitingClass ]_vars
C16_Accepted503AfterRateLimited503 ==
    /\ pc = "ret" /\ ret.err = "nil" /\ ret.status = 503
    /\ cfg.hasVF /\ flags.vf /\ 503 \notin cfg.ValidStatusCodes
    /\ sends = 2 /\ pending.cause = "ratelimit"

IsPrefix(p, q) == Len(p) <= Len(q) /\ SubSeq(q, 1, Len(p)) = p
\* a Get over pages (depth 1, all pages asked for) returned a JSON body
walkReturned ==
    /\ pc = "done" /\ cfg.op = "Get" /\ ~cfg.DisablePaging
    /\ ret.err = "nil" /\ ret.resp.body.kind = "json"

\* C17: the results of the body a paginated Get returns start with the
\* results of every page fetched before the last one, in page order, also
\* when the last page has no result array.
C17_NoFetchedResultsLost ==
    walkReturned =>
        IsPrefix(Concatenated(SubSeq(chain, 1, Len(chain) - 1), 1),
                 ret.resp.body.value)

\* C18: after a Get over two or more pages that all have a result array, the
\* envelope returned with the merged body holds the results of all pages in
\* page order and no next-link.
C18_EnvelopeIsMergedDocument ==
    (walkReturned /\ walked.pages >= 2 /\ everyPageHasValue) =>
        /\ ~ret.o.nil
        /\ ret.o.value = Concatenated(chain, 1)
        /\ ret.o.nextLink = 0

\* C19: an operation that returns an error returns a nil response with it.
C19_NilResponseWithError ==
    (pc = "done" /\ ret.err # "nil") => ret.resp = Nil

\* C20: the first attempt of a call is sent without a pause and every later
\* attempt after exactly one pause, whichever of the two retries led to it;
\* the pause before an attempt that follows a consistency retry is the
\* default exponential backoff of the iteration before, at most 64 seconds.
C20_OnePauseBeforeEachLaterAttempt ==
    /\ sends <= 1 => sleeps = 0 /\ slept = NoSleep
    /\ sends >= 1 => sleeps = sends - 1
    /\ sends >= 2 => slept.cause \in {"ratelimit", "consistency"}
    /\ (pc = "check" /\ slept.cause = "consistency") =>
          /\ slept.delay = Min(Pow2(multiplier - 1), 64)
          /\ slept.delay <= 64
C20_SixthConsistencyPauseIs64 ==
    /\ pc = "check" /\ sends = 7 /\ sleeps = 6 /\ cfRetries = 6
    /\ slept.cause = "consistency" /\ slept.delay = 64

====
